---- MODULE Spec2Model ----
(***************************************************************************)
(* The earnings tracker of daily_earning/app/(tabs)/index.tsx (the         *)
(* "extended" variant, with sorting and pagination) and of the second      *)
(* App of unnamed/part_000 (the "basic" variant).  One process, driven by  *)
(* user-interface callbacks.  Text is a sequence of one-character strings, *)
(* so that parsing, trimming and string comparison are computed.           *)
(***************************************************************************)
EXTENDS Integers, Sequences, FiniteSets

\* ------------------------------------------------------------------ bounds
\* Value of Date.now() when a run starts, and the milliseconds that pass in it.
ClockStart == 20
MaxTicks == 1
\* Number of user events (presses, text changes) explored from Init.
MaxEvents == 6
\* Number of user events explored from a pre-filled ledger (InitPaged).
MaxPagedEvents == 2
\* Delete prompts that can be on screen or queued at once.
MaxAlerts == 2
\* Number of user events explored from a ledger of a few records (InitSmall).
MaxSmallEvents == 4

\* -------------------------------------------------------------------- text
\* null, and the results of parseFloat: NaN or a number.
NULL == [null |-> TRUE]
NaN == [nan |-> TRUE]
Num(n) == [nan |-> FALSE, val |-> n]

Digits == <<"0", "1", "2", "3", "4", "5", "6", "7", "8", "9">>

\* The characters of the texts typed or produced in a run.
Alphabet == {Digits[i] : i \in 1..10} \cup {" ", "-", "+", "a", "n"}

IsDigitOf == [c \in Alphabet |-> \E i \in 1..10 : Digits[i] = c]

IsDigit(c) == IsDigitOf[c]

DigitValOf == [c \in Alphabet |-> IF IsDigitOf[c] THEN (CHOOSE i \in 1..10 : Digits[i] = c) - 1 ELSE 0]

DigitVal(c) == DigitValOf[c]

IsSpace(c) == c = " "

\* Position of a character in the collation order: space, punctuation,
\* digits, letters.
CharRankOf ==
    [c \in Alphabet |->
        IF IsSpace(c) THEN 0
        ELSE IF c = "-" THEN 1
        ELSE IF c = "+" THEN 2
        ELSE IF IsDigitOf[c] THEN 3 + DigitValOf[c]
        ELSE IF c = "a" THEN 13
        ELSE 14]

CharRank(c) == CharRankOf[c]

RECURSIVE SkipSpace(_)
SkipSpace(s) ==
    IF s # <<>> /\ IsSpace(Head(s)) THEN SkipSpace(Tail(s)) ELSE s

\* Value of the longest prefix of digits of s, continuing from acc.
RECURSIVE DigitRun(_, _)
DigitRun(s, acc) ==
    IF s # <<>> /\ IsDigit(Head(s))
    THEN DigitRun(Tail(s), 10 * acc + DigitVal(Head(s)))
    ELSE acc

\* parseFloat over the alphabet of AmountInputs: leading white space is
\* skipped, an optional sign and the longest run of digits are read, what
\* follows is ignored; NaN when no digit is read.
ParseFloat(s) ==
    LET t == SkipSpace(s)
        neg == t # <<>> /\ Head(t) = "-"
        u == IF t # <<>> /\ (Head(t) = "-" \/ Head(t) = "+") THEN Tail(t) ELSE t
    IN IF u = <<>> \/ ~IsDigit(Head(u)) THEN NaN
       ELSE IF neg THEN Num(0 - DigitRun(u, 0)) ELSE Num(DigitRun(u, 0))

\* String(n) for an integer n.
RECURSIVE NatToString(_)
NatToString(n) ==
    IF n < 10 THEN <<Digits[n + 1]>>
    ELSE Append(NatToString(n \div 10), Digits[(n % 10) + 1])

StringOf(n) == IF n < 0 THEN <<"-">> \o NatToString(0 - n) ELSE NatToString(n)

RECURSIVE TrimEnd(_)
TrimEnd(s) ==
    IF s # <<>> /\ IsSpace(s[Len(s)]) THEN TrimEnd(SubSeq(s, 1, Len(s) - 1)) ELSE s

Trim(s) == TrimEnd(SkipSpace(s))

\* a.localeCompare(b): negative, zero or positive, decided by the first
\* position where the texts differ, or by their lengths.
LocaleCompare(a, b) ==
    LET m == IF Len(a) < Len(b) THEN Len(a) ELSE Len(b)
        diff == {i \in 1..m : a[i] # b[i]}
    IN IF diff = {}
       THEN IF Len(a) < Len(b) THEN -1 ELSE IF Len(a) > Len(b) THEN 1 ELSE 0
       ELSE LET k == CHOOSE i \in diff : \A j \in diff : i <= j
            IN IF CharRank(a[k]) < CharRank(b[k]) THEN -1 ELSE 1

\* ------------------------------------------------------------------ inputs
Day5 == <<"2", "0", "2", "4", "-", "0", "1", "-", "0", "5">>
Day6 == <<"2", "0", "2", "4", "-", "0", "1", "-", "0", "6">>
\* A date typed without the zero padding.
DayShort == <<"2", "0", "2", "4", "-", "1", "-", "5">>

\* new Date().toISOString().slice(0, 10) at clock value t.
Today(t) == IF t <= ClockStart THEN Day5 ELSE Day6

\* What the user types into the amount, date and note fields.
AmountInputs ==
    { <<"a">>, <<"0">>, <<"-", "1">>, <<"1">>, <<"2">>, <<"1", "a">> }

DateInputs == { Day5, Day6 }

NoteInputs == { <<" ", "n", " ">> }

\* ------------------------------------------------------------------- state
VARIABLES
    variant,    \* "basic" (part_000) or "extended" (index.tsx)
    earnings,   \* App: the ledger, newest first
    editing,    \* App: NULL or the record being edited
    amount,     \* DailyEarningsInput: text of the amount field
    date,       \* DailyEarningsInput: text of the date field
    note,       \* DailyEarningsInput: text of the note field
    page,       \* App (extended): stored page number
    pageSize,   \* App (extended): 5, 10 or 20
    sortBy,     \* App (extended): "date" or "amount"
    sortDir,    \* App (extended): "asc" or "desc"
    now,        \* Date.now()
    alerts,     \* Alert.alert dialogs not yet answered, oldest first
    effects,    \* useEffect callbacks whose dependencies changed in the last render
    ev,         \* the handler that ran last, its argument and what it started from
    budget      \* user events left in the run

vars == <<variant, earnings, editing, amount, date, note, page, pageSize,
          sortBy, sortDir, now, alerts, effects, ev, budget>>

formVars == <<amount, date, note>>
viewVars == <<page, pageSize, sortBy, sortDir>>

PageSizes == {5, 10, 20}
SortKeys == {"date", "amount"}

\* ----------------------------------------------------------- derived views
Range(s) == {s[i] : i \in 1..Len(s)}

Min(a, b) == IF a < b THEN a ELSE b
Max(a, b) == IF a > b THEN a ELSE b

\* Math.ceil(n / p) for n >= 0, p > 0.
Ceil(n, p) == IF n % p = 0 THEN n \div p ELSE (n \div p) + 1

\* prev.some((p) => p.id === id)
Exists(prev, id) == \E i \in 1..Len(prev) : prev[i].id = id

\* handleAdd with a new item put last.
HandleAddAppends(prev, item) ==
    IF Exists(prev, item.id)
    THEN [i \in 1..Len(prev) |-> IF prev[i].id = item.id THEN item ELSE prev[i]]
    ELSE Append(prev, item)

\* handleAdd without the look-up of the id.
HandleAddNoLookup(prev, item) == <<item>> \o prev

\* handleAdd's state update: replace the record with the item's id, or prepend.
HandleAdd(prev, item) ==
    IF Exists(prev, item.id)
    THEN [i \in 1..Len(prev) |-> IF prev[i].id = item.id THEN item ELSE prev[i]]
    ELSE <<item>> \o prev

\* A delete that drops the first record whenever the id is in the ledger.
HandleDeleteDropsHead(p, id) == IF \E i \in 1..Len(p) : p[i].id = id THEN Tail(p) ELSE p

\* p.filter((x) => x.id !== id)
RECURSIVE HandleDelete(_, _)
HandleDelete(p, id) ==
    IF p = <<>> THEN <<>>
    ELSE IF Head(p).id # id THEN <<Head(p)>> \o HandleDelete(Tail(p), id)
    ELSE HandleDelete(Tail(p), id)

\* The comparator of the sorted view: negative, zero or positive.
Compare(a, b, by, dir) ==
    IF by = "date"
    THEN IF a.date = b.date THEN 0
         ELSE IF dir = "asc" THEN LocaleCompare(a.date, b.date)
         ELSE LocaleCompare(b.date, a.date)
    ELSE IF dir = "asc" THEN a.amount - b.amount ELSE b.amount - a.amount

\* Insert that puts x before the elements it ties with.
RECURSIVE InsertBeforeTies(_, _, _, _)
InsertBeforeTies(s, x, by, dir) ==
    IF s = <<>> THEN <<x>>
    ELSE IF Compare(s[Len(s)], x, by, dir) < 0 THEN Append(s, x)
    ELSE Append(InsertBeforeTies(SubSeq(s, 1, Len(s) - 1), x, by, dir), s[Len(s)])

\* x placed into the sorted sequence s after every element not greater than it.
RECURSIVE Insert(_, _, _, _)
Insert(s, x, by, dir) ==
    IF s = <<>> THEN <<x>>
    ELSE IF Compare(s[Len(s)], x, by, dir) <= 0 THEN Append(s, x)
    ELSE Append(Insert(SubSeq(s, 1, Len(s) - 1), x, by, dir), s[Len(s)])

\* [...arr].sort(cmp): Array.prototype.sort is stable.
RECURSIVE Sort(_, _, _)
Sort(arr, by, dir) ==
    IF arr = <<>> THEN <<>>
    ELSE Insert(Sort(SubSeq(arr, 1, Len(arr) - 1), by, dir), arr[Len(arr)], by, dir)

\* slice without its end.
SliceToEnd(arr, start, end) == SubSeq(arr, start + 1, Len(arr))

\* arr.slice(start, end)
Slice(arr, start, end) == SubSeq(arr, start + 1, Min(end, Len(arr)))

Sorted == Sort(earnings, sortBy, sortDir)

\* Math.max(1, Math.ceil(sorted.length / pageSize))
\* The page count with Math.floor in the place of Math.ceil.
TotalPagesOfFloor(sorted) == Max(1, Len(sorted) \div pageSize)

TotalPagesOf(sorted) == Max(1, Ceil(Len(sorted), pageSize))

\* The stored page shown as it is.
CurrentPageUnclamped(sorted) == page

\* Math.min(totalPages, Math.max(1, page))
CurrentPageOf(sorted) == Min(TotalPagesOf(sorted), Max(1, page))

\* The slice of the sorted list shown as page p.
PaginatedAt(sorted, p) ==
    LET start == (p - 1) * pageSize
    IN Slice(sorted, start, start + pageSize)

TotalPages == TotalPagesOf(Sorted)

CurrentPage == CurrentPageOf(Sorted)

Paginated == LET sorted == Sorted IN PaginatedAt(sorted, CurrentPageOf(sorted))

\* EarningsList given the whole sorted list.
ListPropUnpaged == IF variant = "extended" THEN Sorted ELSE earnings

\* The earnings prop of EarningsList.
ListProp == IF variant = "extended" THEN Paginated ELSE earnings

\* The rows EarningsList renders.
Rows == IF variant = "extended" THEN ListProp ELSE Sort(ListProp, "date", "desc")

\* earnings.reduce((s, e) => s + Number(e.amount || 0), 0)
RECURSIVE Reduce(_)
Reduce(list) == IF list = <<>> THEN 0 ELSE Reduce(SubSeq(list, 1, Len(list) - 1)) + list[Len(list)].amount

Total == Reduce(ListProp)

\* ------------------------------------------------------------------- Init
Seed(n) ==
    [j \in 1..n |->
        [id |-> StringOf(ClockStart - j),
         amount |-> IF j % 2 = 0 THEN 1 ELSE 2,
         date |-> IF j % 3 = 0 THEN Day6 ELSE IF j % 4 = 0 THEN DayShort ELSE Day5,
         note |-> <<>>]]

\* Ledger lengths a run of SpecPaged starts from: one page, two pages with a
\* full and a short last page, three pages.
SeedSizes == {4, 6, 10, 11}

InitApp(v, ledger, p, b) ==
    /\ variant = v
    /\ earnings = ledger
    /\ editing = NULL
    /\ amount = <<>>
    /\ date = Today(ClockStart)
    /\ note = <<>>
    /\ page = p
    /\ pageSize = 5
    /\ sortBy = "date"
    /\ sortDir = "desc"
    /\ now = ClockStart
    /\ alerts = <<>>
    /\ effects = {}
    /\ ev = [op |-> "mount", arg |-> NULL, editing |-> FALSE, len |-> Len(ledger), page |-> p]
    /\ budget = b

Init == \E v \in {"basic", "extended"} : InitApp(v, <<>>, 1, MaxEvents)

\* The app after SeedSizes records were added and, in the extended variant,
\* "Next" was pressed up to some page.
InitPaged ==
    \E n \in SeedSizes :
        \/ \E p \in 1..Max(1, Ceil(n, 5)) : InitApp("extended", Seed(n), p, MaxPagedEvents)
        \/ InitApp("basic", Seed(n), 1, MaxPagedEvents)

\* The app after three records were added.
InitSmall == \E v \in {"basic", "extended"} : InitApp(v, Seed(3), 1, MaxSmallEvents)

\* ----------------------------------------------------------------- actions
\* A user event is taken when no dialog is open and the last render's
\* effects have run.
Ready == alerts = <<>> /\ effects = {} /\ budget > 0

\* The handler op runs with argument arg: ev keeps what it started from.
Spend(op, arg) ==
    /\ ev' = [op |-> op, arg |-> arg, editing |-> editing # NULL,
              len |-> Len(earnings), page |-> page]
    /\ budget' = budget - 1

\* The dependency list without earnings.length.
PageDepsNoLength(list, size, by, dir) == <<size, by, dir>>

\* The dependencies of App's page effect: [earnings.length, pageSize, sortBy, sortDir].
PageDeps(list, size, by, dir) == <<Len(list), size, by, dir>>

\* The effects the render after a handler schedules: DailyEarningsInput's
\* when editing changed, App's (extended) when one of its dependencies changed.
Scheduled(editing2, deps2) ==
    (IF editing2 # editing THEN {"form"} ELSE {})
    \cup (IF variant = "extended" /\ deps2 # PageDeps(earnings, pageSize, sortBy, sortDir)
          THEN {"page"} ELSE {})

\* reset()
Reset ==
    /\ amount' = <<>>
    /\ date' = Today(now)
    /\ note' = <<>>

\* onChangeText of the three TextInputs.
SetAmount(s) ==
    /\ Ready
    /\ amount' = s
    /\ Spend("setAmount", s)
    /\ UNCHANGED <<variant, earnings, editing, date, note, viewVars, now, alerts, effects>>

SetDate(d) ==
    /\ Ready
    /\ date' = d
    /\ Spend("setDate", d)
    /\ UNCHANGED <<variant, earnings, editing, amount, note, viewVars, now, alerts, effects>>

SetNote(n) ==
    /\ Ready
    /\ note' = n
    /\ Spend("setNote", n)
    /\ UNCHANGED <<variant, earnings, editing, amount, date, viewVars, now, alerts, effects>>

\* The record handleAddOrSave emits.
Payload(parsed) ==
    [id |-> IF editing # NULL THEN editing.id ELSE StringOf(now),
     amount |-> parsed.val,
     date |-> date,
     note |-> Trim(note)]

\* The check with "<" in the place of "<=".
InvalidAllowsZero(parsed) == parsed.nan \/ parsed.val < 0

\* The check handleAddOrSave makes on the parsed amount.
Invalid(parsed) == parsed.nan \/ parsed.val <= 0

\* Press on "Add Earning" / "Save": handleAddOrSave, with App.handleAdd as onAdd.
HandleAddOrSave ==
    /\ Ready
    /\ Spend("submit", amount)
    /\ LET parsed == ParseFloat(amount)
       IN IF Invalid(parsed)
          THEN /\ alerts' = Append(alerts, [kind |-> "invalid"])
               /\ UNCHANGED <<earnings, editing, formVars, effects>>
          ELSE /\ earnings' = HandleAdd(earnings, Payload(parsed))
               /\ editing' = NULL
               /\ Reset
               /\ effects' = Scheduled(NULL, PageDeps(earnings', pageSize, sortBy, sortDir))
               /\ UNCHANGED alerts
    /\ UNCHANGED <<variant, viewVars, now>>

\* An edit intent that takes the record out of the list while it is edited.
HandleEditRemoves ==
    /\ Ready
    /\ \E item \in Range(Rows) :
        /\ editing' = item
        /\ earnings' = HandleDelete(earnings, item.id)
        /\ effects' = Scheduled(item, PageDeps(earnings', pageSize, sortBy, sortDir))
        /\ Spend("edit", item.id)
    /\ UNCHANGED <<variant, formVars, viewVars, now, alerts>>

\* Press on "Edit" in one of the rows shown: App.handleEdit(item).
HandleEdit ==
    /\ Ready
    /\ \E item \in Range(Rows) :
        /\ editing' = item
        /\ effects' = Scheduled(item, PageDeps(earnings, pageSize, sortBy, sortDir))
        /\ Spend("edit", item.id)
    /\ UNCHANGED <<variant, earnings, formVars, viewVars, now, alerts>>

\* A cancel that resets the form and leaves the edit mode as it is.
CancelStateKeepsEditing(st) ==
    [editing |-> st.editing, amount |-> <<>>, date |-> Today(now), note |-> <<>>]

\* What the "Cancel" press makes of the form and the edit mode:
\* reset(); onCancel?.() with onCancel = () => setEditing(null).
CancelState(st) ==
    [editing |-> NULL, amount |-> <<>>, date |-> Today(now), note |-> <<>>]

\* Press on "Cancel", rendered in edit mode only.
CancelEdit ==
    /\ Ready
    /\ editing # NULL
    /\ LET st == CancelState([editing |-> editing, amount |-> amount,
                              date |-> date, note |-> note])
       IN /\ editing' = st.editing
          /\ amount' = st.amount
          /\ date' = st.date
          /\ note' = st.note
    /\ effects' = Scheduled(NULL, PageDeps(earnings, pageSize, sortBy, sortDir))
    /\ Spend("cancel", NULL)
    /\ UNCHANGED <<variant, earnings, viewVars, now, alerts>>

\* Press on "Delete" in one of the rows shown: the two-choice prompt is
\* raised.  A second press can arrive before the first prompt is on screen.
ConfirmDelete ==
    /\ effects = {} /\ budget > 0
    /\ \A i \in 1..Len(alerts) : alerts[i].kind = "delete"
    /\ Len(alerts) < MaxAlerts
    /\ \E item \in Range(Rows) :
        /\ alerts' = Append(alerts, [kind |-> "delete", id |-> item.id])
        /\ Spend("confirmDelete", item.id)
    /\ UNCHANGED <<variant, earnings, editing, formVars, viewVars, now, effects>>

\* A prompt whose "Cancel" button deletes as its "Delete" button does.
AlertCancelDeletes ==
    /\ alerts # <<>> /\ effects = {} /\ budget > 0
    /\ earnings' = (IF Head(alerts).kind = "delete"
                    THEN HandleDelete(earnings, Head(alerts).id) ELSE earnings)
    /\ alerts' = Tail(alerts)
    /\ effects' = Scheduled(editing, PageDeps(earnings', pageSize, sortBy, sortDir))
    /\ Spend("alertCancel", NULL)
    /\ UNCHANGED <<variant, editing, formVars, viewVars, now>>

\* The prompt's "Cancel" button, or the "OK" of the invalid-amount alert.
AlertCancel ==
    /\ alerts # <<>> /\ effects = {} /\ budget > 0
    /\ alerts' = Tail(alerts)
    /\ Spend("alertCancel", NULL)
    /\ UNCHANGED <<variant, earnings, editing, formVars, viewVars, now, effects>>

\* The prompt's "Delete" button: handleDelete's state update.
AlertDelete ==
    /\ alerts # <<>> /\ effects = {} /\ budget > 0
    /\ Head(alerts).kind = "delete"
    /\ earnings' = HandleDelete(earnings, Head(alerts).id)
    /\ alerts' = Tail(alerts)
    /\ effects' = Scheduled(editing, PageDeps(earnings', pageSize, sortBy, sortDir))
    /\ Spend("alertDelete", Head(alerts).id)
    /\ UNCHANGED <<variant, editing, formVars, viewVars, now>>

\* A nextPage without the upper limit.
NextPageUnbounded ==
    /\ Ready /\ variant = "extended"
    /\ page' = page + 1
    /\ Spend("nextPage", NULL)
    /\ UNCHANGED <<variant, earnings, editing, formVars, pageSize, sortBy, sortDir,
                   now, alerts, effects>>

\* Press on "Next": nextPage.
NextPage ==
    /\ Ready /\ variant = "extended"
    /\ page' = Min(TotalPages, page + 1)
    /\ Spend("nextPage", NULL)
    /\ UNCHANGED <<variant, earnings, editing, formVars, pageSize, sortBy, sortDir,
                   now, alerts, effects>>

\* Press on "Prev": prevPage.
PrevPage ==
    /\ Ready /\ variant = "extended"
    /\ page' = Max(1, page - 1)
    /\ Spend("prevPage", NULL)
    /\ UNCHANGED <<variant, earnings, editing, formVars, pageSize, sortBy, sortDir,
                   now, alerts, effects>>

\* Press on a page size button: changePageSize(size).
ChangePageSize(size) ==
    /\ Ready /\ variant = "extended"
    /\ pageSize' = size
    /\ page' = 1
    /\ effects' = Scheduled(editing, PageDeps(earnings, size, sortBy, sortDir))
    /\ Spend("changePageSize", size)
    /\ UNCHANGED <<variant, earnings, editing, formVars, sortBy, sortDir, now, alerts>>

\* toggleSort over a view that is earnings.sort(...), the sort in place.
ToggleSortInPlace(by) ==
    /\ Ready /\ variant = "extended"
    /\ IF sortBy = by
       THEN /\ sortDir' = (IF sortDir = "asc" THEN "desc" ELSE "asc")
            /\ UNCHANGED sortBy
       ELSE /\ sortBy' = by
            /\ sortDir' = "desc"
    /\ earnings' = Sort(earnings, sortBy', sortDir')
    /\ effects' = Scheduled(editing, PageDeps(earnings, pageSize, sortBy', sortDir'))
    /\ Spend("toggleSort", by)
    /\ UNCHANGED <<variant, editing, formVars, page, pageSize, now, alerts>>

\* toggleSort that keeps the direction when the key changes.
ToggleSortKeepsDir(by) ==
    /\ Ready /\ variant = "extended"
    /\ IF sortBy = by
       THEN /\ sortDir' = (IF sortDir = "asc" THEN "desc" ELSE "asc")
            /\ UNCHANGED sortBy
       ELSE /\ sortBy' = by
            /\ UNCHANGED sortDir
    /\ effects' = Scheduled(editing, PageDeps(earnings, pageSize, sortBy', sortDir'))
    /\ Spend("toggleSort", by)
    /\ UNCHANGED <<variant, earnings, editing, formVars, page, pageSize, now, alerts>>

\* Press on a sort button: toggleSort(by).
ToggleSort(by) ==
    /\ Ready /\ variant = "extended"
    /\ IF sortBy = by
       THEN /\ sortDir' = (IF sortDir = "asc" THEN "desc" ELSE "asc")
            /\ UNCHANGED sortBy
       ELSE /\ sortBy' = by
            /\ sortDir' = "desc"
    /\ effects' = Scheduled(editing, PageDeps(earnings, pageSize, sortBy', sortDir'))
    /\ Spend("toggleSort", by)
    /\ UNCHANGED <<variant, earnings, editing, formVars, page, pageSize, now, alerts>>

\* The effects of the last render run before the next event is handled:
\* the form's prefill or reset, then App's setPage(1).
FlushEffects ==
    /\ effects # {}
    /\ IF "form" \in effects
       THEN IF editing # NULL
            THEN /\ amount' = StringOf(editing.amount)
                 /\ date' = editing.date
                 /\ note' = editing.note
            ELSE Reset
       ELSE UNCHANGED formVars
    /\ page' = (IF "page" \in effects THEN 1 ELSE page)
    /\ effects' = {}
    /\ UNCHANGED <<variant, earnings, editing, pageSize, sortBy, sortDir, now, alerts, ev, budget>>

\* A millisecond passes.
Tick ==
    /\ now < ClockStart + MaxTicks
    /\ now' = now + 1
    /\ UNCHANGED <<variant, earnings, editing, formVars, viewVars, alerts, effects, ev, budget>>

Next ==
    \/ \E s \in AmountInputs : SetAmount(s)
    \/ \E d \in DateInputs : SetDate(d)
    \/ \E n \in NoteInputs : SetNote(n)
    \/ HandleAddOrSave
    \/ HandleEdit
    \/ CancelEdit
    \/ ConfirmDelete
    \/ AlertCancel
    \/ AlertDelete
    \/ NextPage
    \/ PrevPage
    \/ \E size \in PageSizes : ChangePageSize(size)
    \/ \E by \in SortKeys : ToggleSort(by)
    \/ FlushEffects
    \/ Tick

Spec == Init /\ [][Next]_vars

SpecPaged == InitPaged /\ [][Next]_vars

SpecSmall == InitSmall /\ [][Next]_vars

\* -------------------------------------------------------------- properties
\* The step is the handler op, taken as a user event.
Event(op) == ev'.op = op /\ budget' = budget - 1

\* The amount field holds a text that parses to a positive number.
ValidAmount == ~Invalid(ParseFloat(amount))

\* The whole text, white space at its ends aside, is an optionally signed
\* run of digits.
IsNumericText(s) ==
    LET t == Trim(s)
        u == IF t # <<>> /\ (Head(t) = "-" \/ Head(t) = "+") THEN Tail(t) ELSE t
    IN u # <<>> /\ \A i \in 1..Len(u) : IsDigit(u[i])

\* The sum of the amounts of a list, from its head.
RECURSIVE SumFrom(_)
SumFrom(list) == IF list = <<>> THEN 0 ELSE Head(list).amount + SumFrom(Tail(list))

\* C1: a submit whose amount text is not a number, or is a number <= 0,
\* leaves the ledger and the edit mode as they were.
C1_InvalidAmountEmitsNothing ==
    [][(Event("submit") /\ (~IsNumericText(amount) \/ ParseFloat(amount).val <= 0))
        => (earnings' = earnings /\ editing' = editing)]_vars

\* C2: a valid submit in Idle mode prepends exactly one record, whose id is
\* none of the ids the ledger held.
C2_AddPrependsFreshRecord ==
    [][(Event("submit") /\ editing = NULL /\ ValidAmount)
        => /\ Len(earnings') = Len(earnings) + 1
           /\ Tail(earnings') = earnings
           /\ \A i \in 1..Len(earnings) : earnings[i].id # Head(earnings').id]_vars

\* C3: a valid submit in Editing(r) mode replaces the record with r's id at
\* its position by the new values and adds no record.
C3_SaveReplacesInPlace ==
    [][(Event("submit") /\ editing # NULL /\ ValidAmount)
        => /\ Len(earnings') = Len(earnings)
           /\ \E i \in 1..Len(earnings) :
                /\ earnings[i].id = editing.id
                /\ earnings'[i].id = editing.id
                /\ earnings'[i].amount = ParseFloat(amount).val
                /\ earnings'[i].date = date
                /\ \A j \in 1..Len(earnings) : j # i => earnings'[j] = earnings[j]]_vars

\* C4: the record a submit emits replaces the ledger record with its id, at
\* that record's position and with nothing else changed, when there is one;
\* otherwise it is prepended.  Only the presence of the id decides.
C4_Reconciliation ==
    [][(Event("submit") /\ ValidAmount)
        => LET item == Payload(ParseFloat(amount))
               present == \E i \in 1..Len(earnings) : earnings[i].id = item.id
           IN IF present
              THEN /\ Len(earnings') = Len(earnings)
                   /\ \A i \in 1..Len(earnings) :
                        earnings'[i] = (IF earnings[i].id = item.id THEN item ELSE earnings[i])
              ELSE earnings' = <<item>> \o earnings]_vars

\* A save in edit mode that found no record with the edited id and prepended.
C4_Witness ==
    /\ ev.op = "submit" /\ ev.editing
    /\ Len(earnings) = ev.len + 1

\* C5: no two records of the ledger have the same id.
C5_UniqueIds ==
    \A i, j \in 1..Len(earnings) : earnings[i].id = earnings[j].id => i = j

\* An add in Idle mode that met a record with the id it generated.
C5_Witness ==
    /\ ev.op = "submit" /\ ~ev.editing /\ alerts = <<>>
    /\ ev.len >= 1 /\ Len(earnings) = ev.len

\* The records the total is scoped to: the ledger (basic), the positions of
\* the current page in the sorted list (extended).
Scope ==
    IF variant = "basic" THEN earnings
    ELSE LET sorted == Sorted
             cur == CurrentPageOf(sorted)
         IN SubSeq(sorted, (cur - 1) * pageSize + 1, Min(cur * pageSize, Len(earnings)))

\* C6: the total shown is the sum of the amounts of the records in scope.
C6_TotalIsSumOfScope == Total = SumFrom(Scope)

\* A delete in the extended variant that left more than one page, the second shown.
C6_Witness ==
    /\ variant = "extended" /\ ev.op = "alertDelete"
    /\ Len(earnings) < ev.len
    /\ TotalPages >= 2 /\ CurrentPage = 2
    /\ Total < SumFrom(earnings)

\* C7: totalPages is max(1, ceil(n / p)) and the page shown is in 1..totalPages.
C7_PageWithinRange ==
    variant = "extended" =>
        LET n == Len(earnings)
            total == TotalPages
            cur == CurrentPage
        IN /\ total >= 1
           /\ total * pageSize >= n
           /\ total > 1 => (total - 1) * pageSize < n
           /\ 1 <= cur /\ cur <= total

\* Right after a delete, the stored page is past the last page.
C7_Witness ==
    /\ variant = "extended" /\ ev.op = "alertDelete"
    /\ page > TotalPages /\ CurrentPage = TotalPages

\* C8: a step that changes the page size, the sort key or direction, or the
\* ledger's length schedules the page reset; while the reset is pending
\* nothing but it (and the clock) moves, and it leaves page 1; the page size
\* stays one of 5, 10, 20.
C8_ResetToPageOne ==
    [][variant = "extended" =>
        /\ pageSize' \in {5, 10, 20}
        /\ (Len(earnings') # Len(earnings) \/ pageSize' # pageSize
              \/ sortBy' # sortBy \/ sortDir' # sortDir)
              => "page" \in effects'
        /\ "page" \in effects
              => \/ UNCHANGED <<earnings, editing, formVars, viewVars, alerts, effects, ev, budget>>
                 \/ (effects' = {} /\ page' = 1)]_vars

\* An insert made while page 2 or later was shown, after the reset.
C8_Witness ==
    /\ variant = "extended" /\ ev.op = "submit"
    /\ ev.page > 1 /\ Len(earnings) = ev.len + 1
    /\ effects = {} /\ page = 1

\* The pages 1..p, one after the other.
RECURSIVE AllPages(_, _)
AllPages(sorted, p) ==
    IF p = 0 THEN <<>> ELSE AllPages(sorted, p - 1) \o PaginatedAt(sorted, p)

\* C9: the page shown holds the positions (page-1)*pageSize+1 .. page*pageSize
\* of the sorted list; every page before the last is full, no page is empty
\* unless the ledger is, and every record is on exactly one page.
C9_PageSlicePartition ==
    variant = "extended" =>
        LET n == Len(earnings)
            sorted == Sorted
            total == TotalPagesOf(sorted)
            first == (CurrentPageOf(sorted) - 1) * pageSize
            shown == Paginated
            all == AllPages(sorted, total)
        IN /\ Len(shown) = Min(pageSize, n - first)
           /\ \A i \in 1..Len(shown) : shown[i] = sorted[first + i]
           /\ \A p \in 1..total :
                LET pg == PaginatedAt(sorted, p)
                IN /\ p < total => Len(pg) = pageSize
                   /\ n > 0 => Len(pg) >= 1
           /\ \A i \in 1..n :
                Cardinality({j \in 1..Len(all) : all[j].id = earnings[i].id}) = 1

\* "Next" reached the third, short page.
C9_Witness ==
    /\ variant = "extended" /\ ev.op = "nextPage"
    /\ TotalPages = 3 /\ CurrentPage = 3 /\ Len(Paginated) = 1

\* C10: the app starts sorted by date, descending; toggleSort(by) with a new
\* key selects it, descending, and with the active key keeps it and flips
\* the direction.
C10_ToggleSort ==
    [][/\ ev.op = "mount" => (sortBy = "date" /\ sortDir = "desc")
       /\ Event("toggleSort") =>
            IF ev'.arg # sortBy
            THEN sortBy' = ev'.arg /\ sortDir' = "desc"
            ELSE /\ sortBy' = sortBy
                 /\ sortDir' = (IF sortDir = "desc" THEN "asc" ELSE "desc")]_vars

\* The key was changed to amount and then selected again.
C10_Witness ==
    /\ ev.op = "toggleSort" /\ ev.arg = "amount"
    /\ sortBy = "amount" /\ sortDir = "asc"

\* a is not after b in the order of texts: at the first position where they
\* differ a has the lower character, or a is a prefix of b.
StrLeq(a, b) ==
    LET m == Min(Len(a), Len(b))
    IN \/ \E k \in 1..m :
            /\ \A j \in 1..(k - 1) : a[j] = b[j]
            /\ CharRank(a[k]) < CharRank(b[k])
       \/ (\A j \in 1..m : a[j] = b[j]) /\ Len(a) <= Len(b)

\* x may stand before y under the key by and the direction dir.
KeyLeq(x, y, by, dir) ==
    IF by = "date"
    THEN IF dir = "asc" THEN StrLeq(x.date, y.date) ELSE StrLeq(y.date, x.date)
    ELSE IF dir = "asc" THEN x.amount <= y.amount ELSE x.amount >= y.amount

KeyTie(x, y, by) == IF by = "date" THEN x.date = y.date ELSE x.amount = y.amount

\* The whole list in the order it is displayed, with its key and direction.
DisplayOrder == IF variant = "extended" THEN Sorted ELSE Rows
DisplayKey == IF variant = "extended" THEN sortBy ELSE "date"
DisplayDir == IF variant = "extended" THEN sortDir ELSE "desc"

\* C11: the displayed order holds every ledger record once, is ordered by
\* the active key in the active direction (date descending when no sort was
\* selected), and keeps records that tie in their ledger order.
C11_DisplayOrder ==
    LET d == DisplayOrder
        n == Len(earnings)
        at == [i \in 1..n |-> CHOOSE k \in 1..Len(d) : d[k] = earnings[i]]
    IN /\ Len(d) = n
       /\ \A i \in 1..n : Cardinality({k \in 1..Len(d) : d[k] = earnings[i]}) = 1
       /\ \A k \in 1..(Len(d) - 1) : KeyLeq(d[k], d[k + 1], DisplayKey, DisplayDir)
       /\ \A i, j \in 1..n :
            (i < j /\ KeyTie(earnings[i], earnings[j], DisplayKey)) => at[i] < at[j]
       /\ ev.op = "mount" => (DisplayKey = "date" /\ DisplayDir = "desc")

\* Amount ascending was selected on a ledger whose order it changes.
C11_Witness ==
    /\ variant = "extended" /\ ev.op = "toggleSort"
    /\ sortBy = "amount" /\ sortDir = "asc"
    /\ Len(earnings) >= 6 /\ Sorted # earnings

\* The ids of the records of a list.
Ids(list) == {list[i].id : i \in 1..Len(list)}

\* C12: an id leaves the ledger only in the step of the prompt's "Delete"
\* button, and it is the id of the row whose Delete press raised that prompt;
\* the prompt's "Cancel" leaves the ledger as it was; no submit, edit, cancel,
\* sort or paging event takes an id out of the ledger.
C12_OnlyConfirmedDeleteRemoves ==
    [][/\ \A id \in Ids(earnings) \ Ids(earnings') :
            /\ Event("alertDelete")
            /\ alerts # <<>>
            /\ Head(alerts) = [kind |-> "delete", id |-> id]
       /\ Event("alertCancel") => earnings' = earnings
       /\ (\E op \in {"submit", "edit", "cancel", "toggleSort", "changePageSize",
                       "nextPage", "prevPage", "confirmDelete"} : Event(op))
            => Ids(earnings) \subseteq Ids(earnings')]_vars

\* A confirmed delete took one id out of a ledger of several records.
C12_Witness ==
    /\ ev.op = "alertDelete"
    /\ ev.len >= 2
    /\ Len(earnings) = ev.len - 1
    /\ ev.arg \notin Ids(earnings)

\* The amount field parses to a number above zero.
PositiveAmount == LET parsed == ParseFloat(amount) IN ~parsed.nan /\ parsed.val > 0

\* C13: an edit intent on a row sets the edit mode to that record and leaves
\* the ledger as it was; the mode goes back to idle only in a successful
\* submit or a cancel; every successful submit ends in idle; no other event
\* changes the edit mode.
C13_EditModeMachine ==
    [][/\ Event("edit") =>
            /\ editing' # NULL
            /\ editing'.id = ev'.arg
            /\ \E i \in 1..Len(earnings) : earnings[i] = editing'
            /\ earnings' = earnings
       /\ (editing # NULL /\ editing' = NULL) =>
            \/ Event("submit") /\ PositiveAmount
            \/ Event("cancel")
       /\ (Event("submit") /\ PositiveAmount) => editing' = NULL
       /\ editing' # editing =>
            \/ Event("edit")
            \/ Event("cancel")
            \/ Event("submit") /\ PositiveAmount]_vars

\* An edit intent arrived while another record was being edited.
C13_Witness ==
    /\ ev.op = "edit"
    /\ ev.editing
    /\ editing # NULL
    /\ editing.id = ev.arg
    /\ Len(earnings) >= 2

\* C14: a cancel sets the edit mode to idle and leaves the ledger, the sort
\* and the page state as they were; a second cancel applied to the state the
\* first one produced gives that same state.
C14_CancelIdempotent ==
    [][Event("cancel") =>
        LET once == [editing |-> editing', amount |-> amount',
                     date |-> date', note |-> note']
        IN /\ editing' = NULL
           /\ UNCHANGED <<earnings, viewVars>>
           /\ CancelState(once) = once]_vars

\* The edit of a record of the ledger was cancelled.
C14_Witness ==
    /\ ev.op = "cancel"
    /\ ev.editing
    /\ editing = NULL
    /\ earnings # <<>>

\* Every record of a list has an amount above zero.
AllPositive(list) == \A i \in 1..Len(list) : list[i].amount > 0

\* C15: every record of the ledger has an amount above zero, and a record
\* that was not in the ledger is written only by a submit whose amount
\* parsed to a number above zero.
C15_AmountsPositive ==
    [][/\ AllPositive(earnings)
       /\ AllPositive(earnings')
       /\ (\E i \in 1..Len(earnings') : \A j \in 1..Len(earnings) : earnings'[i] # earnings[j])
            => (Event("submit") /\ PositiveAmount)]_vars

\* A submit of the text "2" wrote a record.
C15_Witness ==
    /\ ev.op = "submit"
    /\ ev.arg = <<"2">>
    /\ alerts = <<>>
    /\ Len(earnings) = ev.len + 1
    /\ Head(earnings).amount = 2

\* C16: while a record is being edited, the ledger holds a record with its id.
C16_EditedRecordInLedger ==
    editing # NULL => editing.id \in Ids(earnings)

\* The list without its k-th record.
Without(list, k) == SubSeq(list, 1, k - 1) \o SubSeq(list, k + 1, Len(list))

\* C17: the prompt's "Delete" for id k takes exactly the record with id k
\* out of the ledger, the other records keeping content and order; when no
\* record has id k the ledger stays as it was.
C17_DeleteRemovesExactlyOne ==
    [][Event("alertDelete") =>
        LET k == Head(alerts).id
        IN IF k \in Ids(earnings)
           THEN /\ Len(earnings') = Len(earnings) - 1
                /\ \E i \in 1..Len(earnings) :
                     /\ earnings[i].id = k
                     /\ earnings' = Without(earnings, i)
           ELSE earnings' = earnings]_vars

\* The second of two prompts for the same row was confirmed after the first
\* one had removed the record; other records are still in the ledger.
C17_Witness ==
    /\ ev.op = "alertDelete"
    /\ ev.len >= 1
    /\ Len(earnings) = ev.len
    /\ ev.arg \notin Ids(earnings)

\* The step is one of the display controls, or the effects that follow it.
DisplayStep ==
    \/ \E op \in {"toggleSort", "changePageSize", "nextPage", "prevPage"} : Event(op)
    \/ /\ ev.op \in {"toggleSort", "changePageSize", "nextPage", "prevPage"}
       /\ effects # {} /\ effects' = {}

\* C18: a sort toggle, a page size change, Prev and Next, with the effects
\* they schedule, leave the ledger (content and order) and the edit mode as
\* they were: the sorted view is never written back.
C18_DisplayControlsFrame ==
    [][DisplayStep => UNCHANGED <<earnings, editing>>]_vars

\* Next was pressed on a view sorted by amount whose order differs from the
\* ledger's.
C18_Witness ==
    /\ variant = "extended"
    /\ ev.op = "nextPage"
    /\ page = 2
    /\ sortBy = "amount"
    /\ Sorted # earnings

\* Math.min(total, Math.max(1, p))
Clamp(p, total) == Min(total, Max(1, p))

\* C19: Next moves the current page forward by one when it is below the
\* page count and leaves it on the last page; Prev moves it back by one
\* when it is above 1 and leaves it on page 1; when no page effect is
\* pending the stored page is the clamped current page.
C19_PrevNext ==
    [][variant = "extended" =>
        LET sorted == Sorted
            total == TotalPagesOf(sorted)
            cur == CurrentPageOf(sorted)
            total2 == Max(1, Ceil(Len(earnings'), pageSize'))
            cur2 == Clamp(page', total2)
        IN /\ Event("nextPage") =>
                /\ total2 = total
                /\ cur2 = (IF cur < total THEN cur + 1 ELSE cur)
           /\ Event("prevPage") =>
                /\ total2 = total
                /\ cur2 = (IF cur > 1 THEN cur - 1 ELSE cur)
           /\ effects = {} => page = cur
           /\ effects' = {} => page' = cur2]_vars

\* Next was pressed on the last of several pages.
C19_Witness ==
    /\ variant = "extended"
    /\ ev.op = "nextPage"
    /\ TotalPages >= 2
    /\ ev.page = TotalPages
    /\ page = ev.page

\* C20: in the extended variant the total shown is the sum of the whole
\* ledger exactly when there is one page; with more than one page the total
\* of every page is below the sum of the whole ledger.
C20_TotalVersusLedger ==
    variant = "extended" =>
        LET sorted == Sorted
            total == TotalPagesOf(sorted)
            full == SumFrom(earnings)
        IN /\ (SumFrom(PaginatedAt(sorted, CurrentPageOf(sorted))) = full) <=> (total = 1)
           /\ Total = SumFrom(PaginatedAt(sorted, CurrentPageOf(sorted)))
           /\ total > 1 => \A p \in 1..total : SumFrom(PaginatedAt(sorted, p)) < full

\* Eleven records at page size 10: two pages, the total shown is below the
\* sum of the ledger.
C20_Witness ==
    /\ variant = "extended"
    /\ ev.op = "changePageSize"
    /\ pageSize = 10
    /\ Len(earnings) = 11
    /\ TotalPages = 2
    /\ Total < SumFrom(earnings)

====
